---- MODULE Spec2Model ----
(***************************************************************************)
(* A model of src/main.c, the "database manager" console program.          *)
(*                                                                         *)
(* Bytes are strings: a character is a one-character string, the zero     *)
(* byte is NUL, and the bytes of a stored heap pointer are the strings     *)
(* starting with "@".  A buffer is a sequence of bytes, a pointer is the   *)
(* name of a heap chunk ("c0", "c1", ...), "NULL" or "BAD" (a value that   *)
(* is no chunk address).                                                   *)
(*                                                                         *)
(* The heap is glibc's: every request of the program is malloc(16), so     *)
(* all chunks live in one size class, whose free list is LIFO and keeps    *)
(* its link in the first 8 bytes of a free chunk.  Freeing a chunk twice   *)
(* is undefined behaviour; the variable libc chooses between the outcomes  *)
(* glibc builds produce: "fastbin" (the fastbins: glibc before 2.26, the   *)
(* build the header of main.c names, or a later glibc with the tcache      *)
(* switched off: only a chunk that is the head of the list is detected)    *)
(* and "tcache" (glibc 2.29 and later: free() stores a key behind the      *)
(* link, a chunk that carries the key and is in the list is detected and   *)
(* the process aborts).                                                    *)
(*                                                                         *)
(* Reading bytes of a chunk that the program has not written since malloc  *)
(* returned it is undefined behaviour as well.  The bytes free() left      *)
(* there are address bits (stored as they are, or xor-ed with the page     *)
(* number of the chunk from glibc 2.32 on), which differ from run to run:  *)
(* the model keeps them as opaque bytes, follows them as links, and lets   *)
(* every read of them as characters choose what they are (Readings).       *)
(***************************************************************************)
EXTENDS Integers, Sequences, FiniteSets, TLC

(***************************************************************************)
(* Program constants.                                                      *)
(***************************************************************************)
SIZE == 16
ADMIN_UID == 0
USER_UID == 1
\* unsigned char id: the id space
IdSpace == 256

(***************************************************************************)
(* Bounds of the model.                                                    *)
(***************************************************************************)
\* chunks the heap may carve from its top
MaxChunks == 4
\* bytes one run adds to the store: two records and one byte
MaxBytes == 33
\* writes of a part of a record in one run
MaxShort == 1
\* records of the store a run may start with (written by earlier runs)
PrefillLen == 255

(***************************************************************************)
(* Bytes and C strings.                                                    *)
(***************************************************************************)
NUL == "NUL"

Min(a, b) == IF a <= b THEN a ELSE b

\* isspace() in the C locale
Space == {" ", "\t", "\n", "x0b", "\f", "\r"}

DigitVal == ("0" :> 0) @@ ("1" :> 1) @@ ("2" :> 2) @@ ("3" :> 3) @@ ("4" :> 4)
            @@ ("5" :> 5) @@ ("6" :> 6) @@ ("7" :> 7) @@ ("8" :> 8) @@ ("9" :> 9)

Zeros(n) == [i \in 1..n |-> NUL]

\* strlen, stopping at the end of the buffer when it holds no NUL
Strlen(s) ==
    IF \E i \in 1..Len(s) : s[i] = NUL
    THEN (CHOOSE i \in 1..Len(s) : s[i] = NUL /\ \A j \in 1..(i-1) : s[j] /= NUL) - 1
    ELSE Len(s)

\* the C string a buffer holds
CStr(s) == SubSeq(s, 1, Strlen(s))

\* a string literal: its characters and the terminating NUL
Lit(chars) == Append(chars, NUL)

\* strncmp(a, b, n) == 0
StrNEq(a, b, n) ==
    SubSeq(a, 1, Min(Strlen(a), n)) = SubSeq(b, 1, Min(Strlen(b), n))

\* streq with the comparison of strncmp's result left out
streq_nonzero(a, b) == ~StrNEq(a, b, SIZE)

\* #define streq(a, b) (strncmp(a, b, SIZE) == 0)
streq(a, b) == StrNEq(a, b, SIZE)

\* buf with the bytes of data stored from position 1 on
Store(buf, data) ==
    SubSeq(data, 1, Min(Len(data), Len(buf)))
        \o SubSeq(buf, Len(data) + 1, Len(buf))

\* first position from i on that holds no white space (Len(s)+1 if none)
RECURSIVE SkipSpace(_, _)
SkipSpace(s, i) ==
    IF i > Len(s) \/ s[i] \notin Space THEN i ELSE SkipSpace(s, i + 1)

\* first position from i on that holds white space (Len(s)+1 if none)
RECURSIVE TokenEnd(_, _)
TokenEnd(s, i) ==
    IF i > Len(s) \/ s[i] \in Space THEN i ELSE TokenEnd(s, i + 1)

\* sscanf(line, "%*s %s", out): n is its return value, tok the string stored
Sscanf(buf) ==
    LET s == CStr(buf)
        a == SkipSpace(s, 1)
        b == TokenEnd(s, a)
        c == SkipSpace(s, b)
        d == TokenEnd(s, c)
    IN  IF a > Len(s) \/ c > Len(s)
        THEN [n |-> -1, tok |-> <<>>]
        ELSE [n |-> 1, tok |-> SubSeq(s, c, d - 1)]

\* the digits of strtol, as the low 32 bits of the value in two 16-bit limbs
RECURSIVE AtoiDigits(_, _, _, _)
AtoiDigits(s, i, hi, lo) ==
    IF i > Len(s) \/ s[i] \notin DOMAIN DigitVal
    THEN <<hi, lo>>
    ELSE LET t == lo * 10 + DigitVal[s[i]]
         IN  AtoiDigits(s, i + 1, (hi * 10 + (t \div 65536)) % 65536, t % 65536)

\* atoi(buf): (int) strtol(buf, NULL, 10), an int of 32 bits
atoi(buf) ==
    LET s == CStr(buf)
        a == SkipSpace(s, 1)
        signed == a <= Len(s) /\ s[a] \in {"+", "-"}
        neg == a <= Len(s) /\ s[a] = "-"
        v == AtoiDigits(s, IF signed THEN a + 1 ELSE a, 0, 0)
        lo == IF neg THEN (65536 - v[2]) % 65536 ELSE v[2]
        hi == IF neg
              THEN (65535 - v[1] + (IF v[2] = 0 THEN 1 ELSE 0)) % 65536
              ELSE v[1]
    IN  IF hi < 32768 THEN hi * 65536 + lo ELSE (hi - 65536) * 65536 + lo

\* the bytes fgets(buf, SIZE, stdin) takes from the input src: up to and with
\* the first newline, at most SIZE - 1 of them
FgetsTake(src) ==
    LET nl == IF \E i \in 1..Len(src) : src[i] = "\n"
              THEN CHOOSE i \in 1..Len(src) :
                       src[i] = "\n" /\ \A j \in 1..(i-1) : src[j] /= "\n"
              ELSE Len(src)
    IN  Min(nl, SIZE - 1)

\* fgets(buf, SIZE, stdin): at end of input (src empty) buf is left as it is
Fgets(buf, src) ==
    IF src = <<>> THEN buf
    ELSE Store(buf, Lit(SubSeq(src, 1, FgetsTake(src))))

\* line[strcspn(line, "\r\n")] = 0
StripEol(buf) ==
    LET s == CStr(buf)
        k == IF \E i \in 1..Len(s) : s[i] \in {"\r", "\n"}
             THEN CHOOSE i \in 1..Len(s) :
                      s[i] \in {"\r", "\n"} /\ \A j \in 1..(i-1) : s[j] \notin {"\r", "\n"}
             ELSE Len(s) + 1
    IN  IF k <= Len(buf) THEN [buf EXCEPT ![k] = NUL] ELSE buf

(***************************************************************************)
(* The record store: database.db.  The program reads it as an array of    *)
(* DBEntry: store is the sequence of its whole records, rest the bytes     *)
(* behind the last whole record (fewer than a record).                     *)
(***************************************************************************)
\* the values of the characters of the model (ASCII)
Code ==
    ("\t" :> 9) @@ ("\n" :> 10) @@ ("x0b" :> 11) @@ ("\f" :> 12) @@ ("\r" :> 13)
    @@ (" " :> 32) @@ ("*" :> 42) @@ ("+" :> 43) @@ ("-" :> 45)
    @@ [c \in DOMAIN DigitVal |-> 48 + DigitVal[c]]
    @@ ("V" :> 86)
    @@ ("a" :> 97) @@ ("b" :> 98) @@ ("c" :> 99) @@ ("d" :> 100) @@ ("e" :> 101)
    @@ ("f" :> 102) @@ ("g" :> 103) @@ ("h" :> 104) @@ ("i" :> 105)
    @@ ("j" :> 106) @@ ("k" :> 107) @@ ("l" :> 108) @@ ("m" :> 109)
    @@ ("n" :> 110) @@ ("o" :> 111) @@ ("p" :> 112) @@ ("q" :> 113)
    @@ ("r" :> 114) @@ ("s" :> 115) @@ ("t" :> 116) @@ ("u" :> 117)
    @@ ("v" :> 118) @@ ("w" :> 119) @@ ("x" :> 120) @@ ("y" :> 121)
    @@ ("z" :> 122)

\* the byte of value n: NUL, a character, or "#n" for any other value
ByteOf ==
    [n \in 0..(IdSpace - 1) |->
        IF n = 0 THEN NUL
        ELSE IF \E c \in DOMAIN Code : Code[c] = n
        THEN CHOOSE c \in DOMAIN Code : Code[c] = n
        ELSE "#" \o ToString(n)]

\* the byte that holds the id n of a record
IdByte(n) == ByteOf[n]

\* typedef struct { unsigned char id; char name[SIZE - 1]; } DBEntry, as bytes
EntryBytes(r) == <<IdByte(r.id)>> \o r.name

\* the id a byte of the file holds: its value as an unsigned char
IdVal == [b \in {ByteOf[n] : n \in 0..(IdSpace - 1)} |->
             CHOOSE n \in 0..(IdSpace - 1) : ByteOf[n] = b]

\* the DBEntry read(db, entry, sizeof(DBEntry)) makes of 16 bytes of the file
Entry(b) == [id |-> IdVal[b[1]], name |-> SubSeq(b, 2, SIZE)]

\* lseek(db, 0, SEEK_END): the length of the file
FileLen(store, rest) == Len(store) * SIZE + Len(rest)

\* the file after bytes have been written at its end: [db, tail]
FileAppend(store, rest, bytes) ==
    LET all == rest \o bytes
        n == Len(all) \div SIZE
    IN  [db |-> store \o [i \in 1..n |->
                             Entry(SubSeq(all, (i - 1) * SIZE + 1, i * SIZE))],
         tail |-> SubSeq(all, n * SIZE + 1, Len(all))]

\* the numbers of bytes a write of less than a record may persist
ShortLens == 1..(SIZE - 1)

\* the id counted from 1
NewId_one(len) == ((len \div SIZE) + 1) % IdSpace

\* entry->id = lseek(db, 0, SEEK_END) / sizeof(DBEntry), len the file length
NewId(len) == (len \div SIZE) % IdSpace

\* strncpy(entry->name, name, SIZE - 1)
Strncpy(tok) == [i \in 1..(SIZE - 1) |-> IF i <= Len(tok) THEN tok[i] ELSE NUL]

\* the condition of a printed row: match_all || streq(entry->name, query)
Matches(r, query) == streq(query, Lit(<<"*">>)) \/ streq(r.name, query)

\* the rows select_from_db prints for the store: "%3d | %s" of every record
\* read, in file order, that matches
Scan(store, query) ==
    LET Hit(r) == Matches(r, query)
        sel == SelectSeq(store, Hit)
    IN  [i \in 1..Len(sel) |-> [id |-> sel[i].id, name |-> CStr(sel[i].name)]]

\* a store written by earlier runs: n records named "a"
Prefill(n) ==
    [i \in 1..n |-> [id |-> NewId((i - 1) * SIZE), name |-> Strncpy(<<"a">>)]]

(***************************************************************************)
(* Roles.                                                                  *)
(***************************************************************************)
\* a gate that lets every role through
IS_ADMIN_any(u) == u \in {ADMIN_UID, USER_UID}

\* #define IS_ADMIN (uid == ADMIN_UID)
IS_ADMIN(u) == u = ADMIN_UID

(***************************************************************************)
(* The heap.  h is [mem, bin, bad, cnt, top, st, freed, allocd]: the       *)
(* bytes of every chunk, the head of the free list, the 8 bytes the head   *)
(* was read from when it is no chunk address ("BAD"), the number of        *)
(* entries the tcache counts in its list, the number of chunks carved so   *)
(* far, the state of the process ("ok", "abort" after glibc's abort(),     *)
(* "badhead" when malloc was given a head that is no chunk address) and,   *)
(* since the iteration began, the pointers passed to free() and the        *)
(* pointers malloc() returned.                                             *)
(***************************************************************************)
Chunk(i) == "c" \o ToString(i)
Chunks == {Chunk(i) : i \in 0..(MaxChunks - 1)}

\* the 8 bytes free() stores for the link p: an address has 6 non-zero
\* bytes; the end of the list is 0 before glibc 2.32 and the page number of
\* the chunk, 5 bytes, from 2.32 on: bytes of unknown value in either case
Enc(p) ==
    IF p = "NULL"
    THEN <<"@NULL", "@", "@", "@", "@", NUL, NUL, NUL>>
    ELSE <<"@" \o p, "@", "@", "@", "@", "@", NUL, NUL>>

\* the pointer 8 bytes of memory are read as
Dec(b) ==
    IF b = Enc("NULL") THEN "NULL"
    ELSE IF \E c \in Chunks : b = Enc(c)
         THEN CHOOSE c \in Chunks : b = Enc(c)
         ELSE "BAD"

\* the 8 bytes of the key free() stores behind the link of a tcache entry
Key == [i \in 1..8 |-> "@key"]

\* the bytes free() leaves in a chunk, of a value that is not known:
\* pointer bytes and key bytes
StaleBytes == {"@", "@NULL", "@key"} \cup {"@" \o c : c \in Chunks}

Stale(b) == b \in StaleBytes

\* the positions of the stale bytes of the string in buf
StalePos(buf) == {i \in 1..Strlen(buf) : Stale(buf[i])}

\* a value of a stale byte that is no zero byte, white space or digit
Junk == "V"

\* the buffers a read of buf as a string may see: every stale byte of the
\* string has some value, one of them at most that of a zero byte or of a
\* blank
Readings(buf) ==
    LET Seen(at, v) ==
            [i \in 1..Len(buf) |->
                IF i = at THEN v
                ELSE IF i \in StalePos(buf) THEN Junk ELSE buf[i]]
    IN  IF StalePos(buf) = {} THEN {buf}
        ELSE {Seen(0, NUL)}
                 \cup {Seen(i, v) : i \in StalePos(buf), v \in {NUL, " "}}

\* the link of a free chunk
Link(h, p) == Dec(SubSeq(h.mem[p], 1, 8))

\* the chunks of the free list, followed for at most n links
RECURSIVE Walk(_, _, _)
Walk(h, p, n) ==
    IF p \in {"NULL", "BAD"} \/ n = 0 THEN {}
    ELSE {p} \cup Walk(h, Link(h, p), n - 1)

\* the list of the size class is empty: the tcache looks at its count, the
\* fastbins at the head
Empty(lib, h) == IF lib = "tcache" THEN h.cnt = 0 ELSE h.bin = "NULL"

\* malloc(16): [h, p], the heap after the call and the pointer returned.
\* An empty list carves a chunk from the top; a head that is no chunk
\* address ends the process inside malloc.  A chunk taken from the tcache
\* has its key zeroed, the link stays in its first 8 bytes.
Malloc(lib, h) ==
    IF h.st /= "ok" THEN [h |-> h, p |-> "NULL"]
    ELSE IF Empty(lib, h)
    THEN IF h.top < MaxChunks
         THEN [h |-> [h EXCEPT !.top = @ + 1,
                               !.allocd = Append(@, Chunk(h.top))],
               p |-> Chunk(h.top)]
         ELSE [h |-> [h EXCEPT !.st = "bound"], p |-> "NULL"]
    ELSE IF h.bin = "BAD"
    THEN [h |-> [h EXCEPT !.st = "badhead"], p |-> "NULL"]
    ELSE [h |-> [h EXCEPT !.bin = Link(h, h.bin),
                          !.bad = IF Link(h, h.bin) = "BAD"
                                  THEN SubSeq(h.mem[h.bin], 1, 8) ELSE <<>>,
                          !.cnt = IF lib = "tcache" THEN @ - 1 ELSE @,
                          !.allocd = Append(@, h.bin),
                          !.mem[h.bin] = IF lib = "tcache"
                                         THEN SubSeq(@, 1, 8) \o Zeros(8)
                                         ELSE @],
          p |-> h.bin]

\* what free(p) detects: the fastbins only that p is the head of the list
\* ("double free or corruption (fasttop)"), the tcache that p carries the
\* key and is in the list ("free(): double free detected in tcache 2")
Detected(lib, h, p) ==
    IF lib = "tcache"
    THEN SubSeq(h.mem[p], 9, 16) = Key /\ p \in Walk(h, h.bin, MaxChunks)
    ELSE h.bin = p

\* the 8 bytes free() stores as the link to the old head: a head that is no
\* chunk address goes back as the bytes it was read from
LinkBytes(h) == IF h.bin = "BAD" THEN h.bad ELSE Enc(h.bin)

\* free(p): the heap after the call.  The link to the old head goes into
\* the first 8 bytes of the chunk, the tcache writes its key behind it.
Free(lib, h, p) ==
    IF h.st /= "ok" THEN h
    ELSE IF Detected(lib, h, p)
    THEN [h EXCEPT !.st = "abort", !.freed = Append(@, p)]
    ELSE [h EXCEPT !.mem[p] = Store(@, IF lib = "tcache"
                                       THEN LinkBytes(h) \o Key
                                       ELSE LinkBytes(h)),
                   !.bin = p,
                   !.bad = <<>>,
                   !.cnt = IF lib = "tcache" THEN @ + 1 ELSE @,
                   !.freed = Append(@, p)]

\* the heap with buf stored in chunk p
Poke(h, p, buf) == [h EXCEPT !.mem[p] = Store(@, buf)]

\* where the process may be once the heap is h and the code would go on at
\* next: a head that is no chunk address makes malloc abort ("malloc():
\* unaligned fastbin chunk detected") or fault
After(h, next) ==
    CASE h.st = "ok" -> {next}
      [] h.st = "abort" -> {"aborted"}
      [] h.st = "badhead" -> {"aborted", "crashed"}
      [] OTHER -> {"crashed"}

(***************************************************************************)
(* The environment: console input and password.txt.                        *)
(***************************************************************************)
\* the lines a user may type
Lines == {
    <<"1", "\n">>,
    <<"2", " ", "u", "s", "e", "r", "\n">>,
    <<"2", " ", "a", "d", "m", "i", "n", "\n">>,
    <<"2", "\n">>,
    <<"3", " ", "*", "\n">>,
    <<"3", " ", "a", "\n">>,
    <<"3", "\n">>,
    <<"4", " ", "a", "\n">>,
    <<"4", " ", "b", "\n">>,
    <<"4", "\n">>,
    <<"5", "\n">>,
    <<"7", "\n">>,
    <<"y", "\n">>,
    <<"p", "w", "\n">>,
    <<"\n">>,
    <<"5", " ", " ", " ", " ", " ", " ", " ", " ", " ", " ", " ", " ", " ", " ",
      "y", "\n">> }

\* the content of password.txt
PasswordFile == <<"p", "w">>

VARIABLES
    pc,        \* where the process is: "await" (top of the loop of main),
               \* inside a handler, "release" (the handler has returned),
               \* "exited", "aborted", "crashed" or "killed"
    uid,       \* static int uid
    db,        \* the whole records of database.db
    tail,      \* the bytes of database.db behind its last whole record
    written,   \* the bytes the writes of this run have persisted
    shorts,    \* the writes of this run that persisted a part of a record
    heap,      \* the heap
    libc,      \* the glibc the program is linked against
    pending,   \* the rest of the input line fgets has read a part of
    eof,       \* the console input has ended
    line,      \* char *line of handle_choice
    username,  \* char *username of change_user
    password,  \* char *password of change_user
    out,       \* what the command of this iteration has printed
    exitcode,  \* the exit status, -1 while running
    typed,     \* history: the bytes the handler's own fgets has read in
               \* this iteration (the typed secret, the confirmation)
    uid0       \* history: uid when the iteration began

vars == <<pc, uid, db, tail, written, shorts, heap, libc, pending, eof, line, username,
          password, out, exitcode, typed, uid0>>

NoOut == [msg |-> "", rows |-> <<>>]
Msg(m) == [msg |-> m, rows |-> <<>>]

\* the runs the model starts: each build on an empty store, and the tcache
\* build on the store an earlier run left
Starts ==
    {[libc |-> "fastbin", db |-> <<>>], [libc |-> "tcache", db |-> <<>>],
     [libc |-> "tcache", db |-> Prefill(PrefillLen)]}

\* main up to the loop: the store is opened, empty or as an earlier run
\* left it, or cannot be opened, which ends the process with status 1
Init ==
    /\ \E opened \in BOOLEAN, s \in Starts :
           /\ pc = IF opened THEN "await" ELSE "exited"
           /\ db = s.db
           /\ libc = s.libc
           /\ out = IF opened THEN NoOut ELSE Msg("Error opening database.")
           /\ exitcode = IF opened THEN -1 ELSE 1
    /\ uid = USER_UID
    /\ tail = <<>>
    /\ written = 0
    /\ shorts = 0
    /\ heap = [mem |-> [c \in Chunks |-> Zeros(SIZE)], bin |-> "NULL",
               bad |-> <<>>, cnt |-> 0, top |-> 0, st |-> "ok",
               freed |-> <<>>, allocd |-> <<>>]
    /\ pending = <<>>
    /\ eof = FALSE
    /\ line = "NULL"
    /\ username = "NULL"
    /\ password = "NULL"
    /\ typed = <<>>
    /\ uid0 = USER_UID

\* what the next fgets may read: the rest of a line read in part, else a
\* line the user types now, else nothing (<<>>: the end of the input)
Sources ==
    IF eof THEN {<<>>}
    ELSE IF pending /= <<>> THEN {pending}
    ELSE Lines \cup {<<>>}

\* what fgets leaves of src for the next read
Rest(src) ==
    IF src = <<>> THEN <<>> ELSE SubSeq(src, FgetsTake(src) + 1, Len(src))

\* the values atoi may return for buf: any selector when the string holds
\* bytes the program never wrote as characters (a line left as malloc
\* returned it, at the end of the input)
AtoiSet(buf) ==
    IF StalePos(buf) /= {} THEN 0..5 ELSE {atoi(buf)}

\* the results sscanf may have on buf
SscanfSet(buf) == {Sscanf(r) : r \in Readings(buf)}

\* the process dies in a heap call
Die(h) ==
    /\ h.st /= "bound"
    /\ pc' \in After(h, "await")
    /\ heap' = h
    /\ UNCHANGED <<uid, db, tail, written, shorts, libc, pending, eof, line, username,
                   password, out, exitcode, typed, uid0>>

\* the switch of handle_choice: where choice leads
\* the switch with a quit case that also takes selector 0
Switch_quit(choice, u) ==
    CASE choice \in {0, 1} -> "exited"
      [] choice = 2 -> "change_user"
      [] choice = 3 -> "select_from_db"
      [] choice = 4 -> IF IS_ADMIN(u) THEN "insert_into_db" ELSE "release"
      [] choice = 5 -> IF IS_ADMIN(u) THEN "drop_db" ELSE "release"
      [] OTHER -> "release"

Switch(choice, u) ==
    CASE choice = 1 -> "exited"
      [] choice = 2 -> "change_user"
      [] choice = 3 -> "select_from_db"
      [] choice = 4 -> IF IS_ADMIN(u) THEN "insert_into_db" ELSE "release"
      [] choice = 5 -> IF IS_ADMIN(u) THEN "drop_db" ELSE "release"
      [] OTHER -> "release"

\* handle_choice up to the call of the handler
HandleChoice ==
    /\ pc = "await"
    /\ LET m == Malloc(libc, [heap EXCEPT !.freed = <<>>, !.allocd = <<>>])
       IN  IF m.h.st /= "ok" THEN Die(m.h)
           ELSE \E src \in Sources :
                LET buf == Fgets(m.h.mem[m.p], src)
                IN  \E choice \in AtoiSet(buf) :
                        /\ heap' = Poke(m.h, m.p, buf)
                        /\ line' = m.p
                        /\ pending' = Rest(src)
                        /\ eof' = (eof \/ src = <<>>)
                        /\ pc' = Switch(choice, uid)
                        /\ out' = IF choice = 1 THEN Msg("Goodbye!") ELSE NoOut
                        /\ exitcode' = IF choice = 1 THEN 0 ELSE exitcode
                        /\ uid0' = uid
                        /\ UNCHANGED <<uid, db, tail, written, shorts, libc, username, password,
                                       typed>>

\* change_user up to the password prompt
ChangeUser ==
    /\ pc = "change_user"
    /\ UNCHANGED <<typed, uid0>>
    /\ LET m == Malloc(libc, heap)
       IN  IF m.h.st /= "ok" THEN Die(m.h)
           ELSE
           \E sc \in SscanfSet(m.h.mem[line]) :
           LET h1 == IF sc.n = 1 THEN Poke(m.h, m.p, Lit(sc.tok)) ELSE m.h
               name == h1.mem[m.p]
               done == Free(libc, h1, m.p)
           IN  IF sc.n /= 1
               THEN /\ out' = Msg("Invalid username.")
                    /\ heap' = done
                    /\ pc' \in After(done, "release")
                    /\ UNCHANGED <<uid, db, tail, written, shorts, libc, pending, eof, line,
                                   username, password, exitcode>>
               ELSE IF streq(name, Lit(<<"u", "s", "e", "r">>))
               THEN /\ uid' = USER_UID
                    /\ out' = Msg("Switched to user.")
                    /\ heap' = done
                    /\ pc' \in After(done, "release")
                    /\ UNCHANGED <<db, tail, written, shorts, libc, pending, eof, line,
                                   username, password, exitcode>>
               ELSE IF ~streq(name, Lit(<<"a", "d", "m", "i", "n">>))
               THEN /\ out' = Msg("Invalid username.")
                    /\ heap' = done
                    /\ pc' \in After(done, "release")
                    /\ UNCHANGED <<uid, db, tail, written, shorts, libc, pending, eof, line,
                                   username, password, exitcode>>
               ELSE
               LET mp == Malloc(libc, h1)
               IN  IF mp.h.st /= "ok" THEN Die(mp.h)
                   ELSE \E opened \in BOOLEAN :
                        IF ~opened
                        THEN /\ out' = Msg("Error opening file")
                             /\ pc' = "exited"
                             /\ exitcode' = 1
                             /\ heap' = mp.h
                             /\ username' = m.p
                             /\ password' = mp.p
                             /\ UNCHANGED <<uid, db, tail, written, shorts, libc, pending,
                                            eof, line>>
                        ELSE /\ out' = Msg("Enter password: ")
                             /\ pc' = "password"
                             /\ heap' = Poke(mp.h, mp.p,
                                             SubSeq(PasswordFile, 1,
                                                    Min(Len(PasswordFile), SIZE)))
                             /\ username' = m.p
                             /\ password' = mp.p
                             /\ UNCHANGED <<uid, db, tail, written, shorts, libc, pending,
                                            eof, line, exitcode>>

\* change_user from the password prompt on
\* the password step of change_user with free(username) forgotten
EnterPassword_leak ==
    /\ pc = "password"
    /\ \E src \in Sources :
        LET h1 == Poke(heap, line, StripEol(Fgets(heap.mem[line], src)))
        IN  \E seen \in Readings(h1.mem[password]) :
        LET ok == streq(Poke(h1, password, seen).mem[line], seen)
            h2 == Poke(h1, password, Zeros(SIZE))
            h3 == Poke(h2, line, Zeros(SIZE))
            h4 == Free(libc, h3, password)
        IN  /\ uid' = IF ok THEN ADMIN_UID ELSE uid
            /\ out' = Msg(IF ok THEN "Switched to admin." ELSE "Incorrect password!")
            /\ heap' = h4
            /\ pc' \in After(h4, "release")
            /\ pending' = Rest(src)
            /\ eof' = (eof \/ src = <<>>)
            /\ username' = "NULL"
            /\ password' = "NULL"
            /\ typed' = SubSeq(src, 1, FgetsTake(src))
            /\ UNCHANGED <<db, tail, written, shorts, libc, line, exitcode,
                           uid0>>

EnterPassword ==
    /\ pc = "password"
    /\ \E src \in Sources :
        LET h1 == Poke(heap, line, StripEol(Fgets(heap.mem[line], src)))
        IN  \E seen \in Readings(h1.mem[password]) :
        LET ok == streq(Poke(h1, password, seen).mem[line], seen)
            h2 == Poke(h1, password, Zeros(SIZE))
            h3 == Poke(h2, line, Zeros(SIZE))
            h4 == Free(libc, h3, password)
            h5 == Free(libc, h4, username)
        IN  /\ uid' = IF ok THEN ADMIN_UID ELSE uid
            /\ out' = Msg(IF ok THEN "Switched to admin." ELSE "Incorrect password!")
            /\ heap' = h5
            /\ pc' \in After(h5, "release")
            /\ pending' = Rest(src)
            /\ eof' = (eof \/ src = <<>>)
            /\ username' = "NULL"
            /\ password' = "NULL"
            /\ typed' = SubSeq(src, 1, FgetsTake(src))
            /\ UNCHANGED <<db, tail, written, shorts, libc, line, exitcode,
                           uid0>>

\* select_from_db
SelectFromDb ==
    /\ pc = "select_from_db"
    /\ LET m == Malloc(libc, heap)
       IN  IF m.h.st /= "ok" THEN Die(m.h)
           ELSE
           \E sc \in SscanfSet(m.h.mem[line]) :
               IF sc.n /= 1
               THEN LET h1 == Free(libc, m.h, line)
                        h2 == Free(libc, h1, m.p)
                    IN  /\ out' = Msg("Invalid query.")
                        /\ heap' = h2
                        /\ pc' \in After(h2, "release")
               ELSE LET rows == Scan(db, Lit(sc.tok))
                        h1 == IF db = <<>> THEN m.h
                              ELSE Poke(m.h, m.p, EntryBytes(db[Len(db)]))
                        h2 == Free(libc, h1, m.p)
                    IN  /\ out' = [msg |-> "Found", rows |-> rows]
                        /\ heap' = h2
                        /\ pc' \in After(h2, "release")
    /\ UNCHANGED <<uid, db, tail, written, shorts, libc, pending, eof, line,
                   username, password, exitcode, typed, uid0>>

\* insert_into_db.  write() persists the record, nothing of it or a part
\* of it, or the process is killed in it (SIGXFSZ, the file is at the limit
\* of its size).
InsertIntoDb ==
    /\ pc = "insert_into_db"
    /\ UNCHANGED <<typed, uid0>>
    /\ \E sc \in SscanfSet(heap.mem[line]) :
           IF sc.n /= 1
           THEN /\ out' = Msg("Invalid entry.")
                /\ pc' = "release"
                /\ UNCHANGED <<uid, db, tail, written, shorts, heap, libc,
                               pending, eof, line, username, password, exitcode>>
           ELSE
           LET m == Malloc(libc, heap)
           IN  IF m.h.st /= "ok" THEN Die(m.h)
               ELSE
               LET entry == [id |-> NewId(FileLen(db, tail)),
                             name |-> Strncpy(sc.tok)]
                   h1 == Poke(m.h, m.p, EntryBytes(entry))
                   h2 == Free(libc, h1, m.p)
               IN  \/ \E n \in {0} \cup
                               {k \in {SIZE} \cup (IF shorts < MaxShort
                                                    THEN ShortLens ELSE {}) :
                                   written + k <= MaxBytes} :
                       LET file == FileAppend(db, tail,
                                              SubSeq(EntryBytes(entry), 1, n))
                       IN  /\ db' = file.db
                           /\ tail' = file.tail
                           /\ written' = written + n
                           /\ shorts' = IF n \in ShortLens
                                        THEN shorts + 1 ELSE shorts
                           /\ out' = IF n = SIZE
                                     THEN [msg |-> "Entry added",
                                           rows |-> <<[id |-> entry.id,
                                                       name |-> CStr(entry.name)]>>]
                                     ELSE Msg("Error writing to database.")
                           /\ heap' = h2
                           /\ pc' \in After(h2, "release")
                           /\ UNCHANGED <<uid, libc, pending, eof, line,
                                          username, password, exitcode>>
                  \/ /\ pc' = "killed"
                     /\ heap' = h1
                     /\ UNCHANGED <<uid, db, tail, written, shorts, libc,
                                    pending, eof, line, username, password,
                                    out, exitcode>>

\* whether drop_db takes the input src as a yes: buf[0] == 'y'.  At the end
\* of the input fgets stores nothing and buf[0] is uninitialized.
Affirmative(src) ==
    IF src = <<>> THEN BOOLEAN ELSE {SubSeq(src, 1, FgetsTake(src))[1] = "y"}

\* drop_db giving up the administrator role once it has run
DropDb_demote ==
    /\ pc = "drop_db"
    /\ \E src \in Sources :
       \E yes \in Affirmative(src) :
           /\ db' = IF yes THEN <<>> ELSE db
           /\ tail' = IF yes THEN <<>> ELSE tail
           /\ out' = Msg(IF yes THEN "Database wiped!" ELSE "Aborted.")
           /\ pending' = Rest(src)
           /\ eof' = (eof \/ src = <<>>)
           /\ pc' = "release"
           /\ typed' = SubSeq(src, 1, FgetsTake(src))
           /\ uid' = USER_UID
           /\ UNCHANGED <<written, shorts, heap, libc, line, username, password,
                          exitcode, uid0>>

\* drop_db
DropDb ==
    /\ pc = "drop_db"
    /\ \E src \in Sources :
       \E yes \in Affirmative(src) :
           /\ db' = IF yes THEN <<>> ELSE db
           /\ tail' = IF yes THEN <<>> ELSE tail
           /\ out' = Msg(IF yes THEN "Database wiped!" ELSE "Aborted.")
           /\ pending' = Rest(src)
           /\ eof' = (eof \/ src = <<>>)
           /\ pc' = "release"
           /\ typed' = SubSeq(src, 1, FgetsTake(src))
           /\ UNCHANGED <<uid, written, shorts, heap, libc, line, username, password,
                          exitcode, uid0>>

\* the end of handle_choice: free(line); the iteration is over and its
\* history forgotten, but for the calls of free() with line
Release ==
    /\ pc = "release"
    /\ LET h1 == Free(libc, heap, line)
           Is(p) == p = line
       IN  /\ heap' = [h1 EXCEPT !.freed = SelectSeq(@, Is), !.allocd = <<>>]
           /\ pc' \in After(h1, "await")
    /\ typed' = <<>>
    /\ out' = NoOut
    /\ uid0' = uid
    /\ UNCHANGED <<uid, db, tail, written, shorts, libc, pending, eof, line,
                   username, password, exitcode>>

Next ==
    \/ HandleChoice
    \/ ChangeUser
    \/ EnterPassword
    \/ SelectFromDb
    \/ InsertIntoDb
    \/ DropDb
    \/ Release

Spec == Init /\ [][Next]_vars

(***************************************************************************)
(* The claims.                                                             *)
(***************************************************************************)
\* how often the pointer p has been passed to free() in this iteration
Count(log, p) == Cardinality({i \in 1..Len(log) : log[i] = p})

\* the argument of the command in the buffer line
Arg == Sscanf(heap.mem[line])

\* the reference secret, and the secret in the typed bytes t
Secret == CStr(PasswordFile)
TypedSecret(t) == CStr(StripEol(Lit(t)))

\* the typed bytes t begin with the affirmative character
Yes(t) == t /= <<>> /\ t[1] = "y"

\* the buffer line holds a line read from the console whose selector is n
Issued(n) == AtoiSet(heap.mem[line]) = {n}

\* C1: when an iteration of handle_choice has ended, the buffer line it
\* allocated has been passed to free() exactly once.
C1_ReleasedExactlyOnce ==
    pc = "await" /\ line /= "NULL" => Count(heap.freed, line) = 1

\* C2: when a handler has returned to handle_choice, the buffer line has not
\* been passed to free(): the dispatcher's release is the only one.
C2_HandlerKeepsLine ==
    pc = "release" => Count(heap.freed, line) = 0

\* C3: a change-identity command naming "admin" sets the role to privileged
\* when the typed secret equals the reference secret and leaves the role as
\* it was when it differs, in every reachable state.
C3_CredentialTransition ==
    [][pc = "password" =>
           uid' = IF TypedSecret(typed') = Secret THEN ADMIN_UID ELSE uid]_vars

\* C4: the store changes only in insert_into_db and drop_db, entered with
\* the role privileged; with the role restricted no selector enters them.
C4_RoleGating ==
    [][/\ db' /= db \/ tail' /= tail =>
              uid = ADMIN_UID /\ pc \in {"insert_into_db", "drop_db"}
       /\ pc = "await" /\ uid /= ADMIN_UID =>
              /\ pc' \notin {"insert_into_db", "drop_db"}
              /\ db' = db
              /\ tail' = tail]_vars

\* C4 witness: an insert with a valid argument was denied to the restricted role
C4_Witness ==
    /\ pc = "release"
    /\ uid = USER_UID
    /\ atoi(heap.mem[line]) = 4
    /\ Arg.n = 1 /\ Arg.tok = <<"a">>
    /\ out = NoOut

\* C5: change_user with the argument "user" sets the role to restricted,
\* reports the switch and returns, whatever the role was.
C5_SwitchToUser ==
    [][pc = "change_user" /\ Arg.n = 1 /\ Arg.tok = <<"u", "s", "e", "r">> =>
           uid' = USER_UID /\ pc' = "release"
                           /\ out'.msg = "Switched to user."]_vars

\* C5 witness: the privileged role has switched to "user"
C5_Witness ==
    /\ pc = "release"
    /\ out.msg = "Switched to user."
    /\ uid0 = ADMIN_UID
    /\ uid = USER_UID

\* the last SIZE bytes of a file that holds a record at least
LastBytes ==
    SubSeq(EntryBytes(db[Len(db)]) \o tail, Len(tail) + 1, Len(tail) + SIZE)

\* C6: the id of a record just appended is the number of records that were
\* in the store before the append (the length of the file by the width of a
\* record), modulo 256: it is the id the insert reports and the first of
\* the SIZE bytes it has added to the file, whatever the length of the file.
C6_IdAssignment ==
    pc = "release" /\ out.msg = "Entry added" =>
        LET before == (FileLen(db, tail) - SIZE) \div SIZE
        IN  /\ out.rows[1].id = before % IdSpace
            /\ LastBytes[1] = IdByte(before % IdSpace)

\* C6 witness: the 257th record has got id 0, the id of the first record
C6_Witness ==
    /\ pc = "release"
    /\ out.msg = "Entry added"
    /\ tail = <<>>
    /\ Len(db) = IdSpace + 1
    /\ db[Len(db)].id = 0
    /\ db[1].id = 0

\* C7, as much of it as a store with several records of one name allows:
\* after a successful insert of a record named n the query for n returns
\* the row of the inserted record, as the last of its rows.
C7_RoundTrip ==
    pc = "release" /\ out.msg = "Entry added" =>
        LET rows == Scan(db, Lit(out.rows[1].name))
        IN  Len(rows) >= 1 /\ rows[Len(rows)] = out.rows[1]

\* the rows the query "*" prints on a store
AllRows(store) == Scan(store, Lit(<<"*">>))

\* C8: the query "*" prints one row for every record of the store, in the
\* order of the store; an insert that reports success adds the row of its
\* record behind the rows there were, an insert that fails adds none, and
\* a confirmed wipe leaves none.
C8_MatchAll ==
    /\ [](pc = "release" /\ out.msg = "Found" /\ Arg.tok = <<"*">> =>
              /\ Len(out.rows) = Len(db)
              /\ \A i \in 1..Len(db) :
                     out.rows[i] = [id |-> db[i].id, name |-> CStr(db[i].name)])
    /\ [][/\ pc = "insert_into_db" =>
                 AllRows(db') = IF out'.msg = "Entry added"
                                THEN AllRows(db) \o out'.rows
                                ELSE AllRows(db)
          /\ out'.msg = "Database wiped!" => AllRows(db') = <<>>]_vars

\* C9: a wipe command issued while privileged truncates the store when the
\* confirmation read begins with 'y' and leaves it unchanged for any other
\* input, absent input included.
C9_WipeConfirmation ==
    [][pc = "drop_db" /\ Issued(5) =>
           db' = IF Yes(typed') THEN <<>> ELSE db]_vars

\* C10: a command that meets a recoverable input condition leaves the role
\* and the store as they were.
C10_RecoverableNoChange ==
    [][(\/ pc = "await" /\ pc' = "release"
        \/ pc = "change_user" /\ Arg.n /= 1
        \/ pc = "change_user" /\ Arg.n = 1
               /\ Arg.tok \notin {<<"u", "s", "e", "r">>, <<"a", "d", "m", "i", "n">>}
        \/ pc = "select_from_db" /\ Arg.n /= 1
        \/ pc = "insert_into_db" /\ Arg.n /= 1
        \/ pc = "password" /\ typed' /= <<>> /\ TypedSecret(typed') /= Secret
        \/ pc = "drop_db" /\ typed' /= <<>> /\ ~Yes(typed'))
       => uid' = uid /\ db' = db]_vars

\* the positions of the process inside a handler
Handlers ==
    {"change_user", "password", "select_from_db", "insert_into_db", "drop_db"}

\* C11: a command that does not end in a fatal condition comes back to the
\* dispatcher: its handler returns to the end of handle_choice, or goes on
\* to its own next read, and the end of handle_choice returns to the state
\* awaiting the next command.
C11_ReturnsToAwait ==
    [][/\ pc = "release" => pc' = "await"
       /\ pc \in Handlers /\ pc' /= "exited" => pc' \in {"release", "password"}]_vars

Compared == out.msg \in {"Switched to admin.", "Incorrect password!"}

\* C13: after the secret comparison, matching or not, the line buffer holds
\* only zero bytes when handle_choice releases it.
C13_ZeroAtRelease ==
    pc = "release" /\ Compared => heap.mem[line] = Zeros(SIZE)

\* C14: the role starts as USER_UID and no step outside change_user changes it.
C14_RoleFrame ==
    /\ uid = USER_UID
    /\ [][uid' /= uid => pc \in {"change_user", "password"}]_vars

\* C14 witness: an administrator has wiped the store and is still administrator
C14_Witness ==
    /\ pc = "release"
    /\ out.msg = "Database wiped!"
    /\ uid0 = ADMIN_UID
    /\ uid = ADMIN_UID

\* C15: while change_user holds its buffers, line, username and password are
\* three different chunks.
C15_DistinctBuffers ==
    pc = "password" =>
        /\ username /= line
        /\ password /= line
        /\ password /= username

\* C16: wherever the program is about to read a command, a secret or a
\* confirmation, the console input stands at the beginning of a line.
C16_WholeLines ==
    pc \in {"await", "password", "drop_db"} => pending = <<>>

\* C17: the store is a whole number of records while every write has
\* persisted in full, and a step that changes the store is an insert that
\* leaves the earlier records where and as they were, and adds one record
\* of SIZE bytes when its write persists in full, or is the wipe of
\* drop_db, run as administrator and confirmed by a typed 'y', that
\* empties the store.
C17_AppendOrWipe ==
    /\ [](shorts = 0 => tail = <<>>)
    /\ [][db' /= db \/ tail' /= tail =>
              \/ /\ pc = "insert_into_db"
                 /\ Len(db') >= Len(db)
                 /\ SubSeq(db', 1, Len(db)) = db
                 /\ shorts' = shorts =>
                        /\ Len(db') = Len(db) + 1
                        /\ FileLen(db', tail') = FileLen(db, tail) + SIZE
              \/ /\ pc = "drop_db"
                 /\ uid = ADMIN_UID
                 /\ Yes(typed')
                 /\ db' = <<>>
                 /\ tail' = <<>>]_vars

\* the buffers the handler of this iteration allocated for itself: all the
\* allocations of the iteration but the first, which is line
Own == SubSeq(heap.allocd, 2, Len(heap.allocd))

\* C18: when a handler has returned, every buffer it allocated for itself
\* has been passed to free exactly once.
C18_OwnBuffersReleasedOnce ==
    pc = "release" => \A i \in 1..Len(Own) : Count(heap.freed, Own[i]) = 1

\* C18 witness: change_user has returned after allocating two buffers
C18_Witness ==
    /\ pc = "release"
    /\ out.msg = "Incorrect password!"
    /\ Len(Own) = 2
    /\ Own[1] /= Own[2]

\* C19: the record at position i, counted from 0, has id i mod 256, and the
\* ids of a store of at most 256 records are pairwise distinct.
C19_IdIsPosition ==
    /\ \A i \in 1..Len(db) : db[i].id = (i - 1) % IdSpace
    /\ Len(db) <= IdSpace =>
           Cardinality({db[i].id : i \in 1..Len(db)}) = Len(db)
====
